---- MODULE Spec2Model ----
(***************************************************************************)
(* Model of torchscale/component/multihead_attention.py: the live class    *)
(* MultiheadAttention (source lines 221-410; everything else in the file   *)
(* sits inside string literals and is never executed).                     *)
(*                                                                         *)
(* Tensors are modelled by their shape, the meaning of their axes and      *)
(* their content along the (batch, sequence) axes.  An activation's        *)
(* content is rows[b][p]: the entry of batch element b at position p; an   *)
(* entry names the token it was computed from and the projection that      *)
(* produced it, so that two tensors are equal exactly when they were       *)
(* computed the same way from the same tokens.  A score / weight tensor    *)
(* holds, for batch element b and target i, the sequence over the source   *)
(* positions of records (q, k, neg_inf, bias).  Softmax is modelled by     *)
(* what decides a weight's zero-ness: the weight of a source position is   *)
(* zero exactly when its score is -infinity (floating-point underflow      *)
(* aside), every other weight being positive.                              *)
(*                                                                         *)
(* Environment of the engine: args.xpos_rel_pos is false (self.xpos is     *)
(* None), the dropout module is in evaluation mode, and a decoding         *)
(* session keeps its batch size while it shares one cache.                 *)
(***************************************************************************)
EXTENDS Integers, Sequences, FiniteSets, TLC

VARIABLES
    engine,             \* the MultiheadAttention object (or the failed construction)
    incremental_state,  \* the caller-owned cache shared by the calls of a session
    call,               \* the arguments of the last forward call, and the cache before it
    result,             \* what the last forward call returned or raised
    fed,                \* history: the key / value rows the session's calls have merged
    decode,             \* history: the session is T single-token self-attention calls
    pruneIn,            \* apply_pruning: the tensor and ratio given
    pruneOut            \* apply_pruning: the tensor returned

vars == <<engine, incremental_state, call, result, fed, decode, pruneIn, pruneOut>>

(***************************** bounds ***************************************)
MaxLen == 3         \* longest query / key / value sequence of one call
MaxCacheLen == 4    \* longest cached sequence
MaxVec == 3         \* longest last axis of a pruned tensor
MaxRows == 2        \* most vectors of a pruned tensor

EmbedDims == {4}            \* model widths the engine is built with
HeadCounts == {2}           \* head counts the engine is built with
QueryDims == {2, 4}         \* last-axis sizes of the queries supplied
Batches == {1, 2}           \* batch sizes supplied
PruneVals == {-2, 0, 1}     \* entries of the tensors given to apply_pruning
PruneRatios == {<<1, 4>>, <<1, 2>>, <<3, 4>>, <<1, 1>>}  \* top_k as num/den

(***************************** helpers **************************************)
RECURSIVE Prod(_)
Prod(s) == IF s = <<>> THEN 1 ELSE Head(s) * Prod(Tail(s))

numel(shape) == Prod(shape)

RECURSIVE Flatten(_)
Flatten(rows) == IF rows = <<>> THEN <<>> ELSE Head(rows) \o Flatten(Tail(rows))

\* The rows of a contiguous tensor seen as nb rows of equal length.
Rechunk(rows, nb) ==
    LET flat == Flatten(rows)
        len  == Len(flat) \div nb
    IN  [b \in 1..nb |-> SubSeq(flat, (b - 1) * len + 1, b * len)]

NoTensor == [shape |-> <<>>, axes |-> <<>>, rows |-> <<>>, ops |-> <<>>]

NoCache == [has |-> FALSE, prev_key |-> NoTensor, prev_value |-> NoTensor]

(***************************** construction *********************************)
\* The objects __init__ creates after its flag check, in source order.
CreatedObjects(self_attention, subln, flash_attention) ==
    <<"k_proj", "v_proj", "q_proj", "out_proj">>
    \o (IF subln /\ self_attention THEN <<"inner_attn_ln">> ELSE <<>>)
    \o <<"dropout_module">>
    \o (IF flash_attention THEN <<"flash_mha">> ELSE <<>>)

NoEngine ==
    [status |-> "none", error |-> "", line |-> 0, embed_dim |-> 0, num_heads |-> 0,
     head_dim |-> 0, self_attention |-> FALSE, encoder_decoder_attention |-> FALSE,
     inner_attn_ln |-> FALSE, casual |-> FALSE, flash_attention |-> FALSE,
     created |-> <<>>]

\* The fields __init__ sets before its flag check (lines 235-242).
EngineScalars(a) ==
    [NoEngine EXCEPT !.embed_dim = a.embed_dim, !.num_heads = a.num_heads,
                     !.head_dim = a.embed_dim \div a.num_heads,
                     !.self_attention = a.self_attention,
                     !.encoder_decoder_attention = a.encoder_decoder_attention]

\* The engine a construction that passes the flag check yields (lines 245-266).
EngineBuilt(a) ==
    [EngineScalars(a) EXCEPT
        !.status = "ok", !.inner_attn_ln = a.subln /\ a.self_attention,
        !.casual = a.casual,
        !.flash_attention = a.flash_attention,
        !.created = CreatedObjects(a.self_attention, a.subln, a.flash_attention)]

\* A plausible slip: the flag check placed after the projections are created.
init_check_after_projections(a) ==
    IF a.self_attention = a.encoder_decoder_attention
    THEN [EngineScalars(a) EXCEPT !.status = "error", !.error = "AssertionError",
                                  !.line = 243,
                                  !.created = <<"k_proj", "v_proj", "q_proj", "out_proj">>]
    ELSE EngineBuilt(a)

\* MultiheadAttention.__init__ (lines 222-266); a holds its arguments.
__init__(a) ==
    IF a.num_heads = 0
    THEN [NoEngine EXCEPT !.status = "error", !.error = "ZeroDivisionError", !.line = 238,
                          !.embed_dim = a.embed_dim]
    ELSE IF a.embed_dim \div a.num_heads = 0        \* head_dim ** -0.5
    THEN [EngineScalars(a) EXCEPT !.status = "error", !.error = "ZeroDivisionError",
                                  !.line = 239]
    ELSE IF ~(a.self_attention # a.encoder_decoder_attention)   \* assert a ^ b
    THEN [EngineScalars(a) EXCEPT !.status = "error", !.error = "AssertionError",
                                  !.line = 243]
    ELSE EngineBuilt(a)

(***************************** apply_pruning ********************************)
Max(a, b) == IF a >= b THEN a ELSE b

\* k = max(int(tensor.shape[-1] * top_k), 1) (line 269); top_k = num/den is a
\* dyadic fraction, so the float product is exact and int() is its floor.
PruneCount(n, top_k) == Max((n * top_k[1]) \div top_k[2], 1)

\* torch.topk(vec, k, sorted=False) (line 270): the indices of k largest VALUES;
\* which of several equal values is taken is not specified.
topk(vec, k) ==
    {S \in SUBSET (1..Len(vec)) :
        /\ Cardinality(S) = k
        /\ \A i \in S : \A j \in (1..Len(vec)) \ S : vec[i] >= vec[j]}

\* zeros_like(vec).scatter_(-1, indices, 1.0) and vec * mask (lines 271-272).
scatter_mul(vec, indices) == [i \in 1..Len(vec) |-> IF i \in indices THEN vec[i] ELSE 0]

\* MultiheadAttention.apply_pruning (lines 268-273): the tensors it may return
\* for a 2-axis tensor given as its sequence of last-axis vectors.
apply_pruning(tensor, top_k) ==
    LET n == Len(tensor[1])
        k == PruneCount(n, top_k)
        choices == [r \in 1..Len(tensor) |-> topk(tensor[r], k)]
    IN  {[r \in 1..Len(tensor) |-> scatter_mul(tensor[r], pick[r])] :
            pick \in {f \in [1..Len(tensor) -> SUBSET (1..n)] :
                        \A r \in 1..Len(tensor) : f[r] \in choices[r]}}

(***************************** forward **************************************)
\* The state of one forward call as it runs: the arguments (in), the engine
\* (self), the locals of the source, and how far the call got.
StartCall(self, in) ==
    [status |-> "run", error |-> "", line |-> 0, self |-> self, in |-> in,
     bsz |-> in.query.shape[1], tgt_len |-> in.query.shape[2],
     embed_dim |-> in.query.shape[3], src_len |-> in.key.shape[2],
     q |-> NoTensor, k |-> NoTensor, v |-> NoTensor,
     attn_weights |-> NoTensor, attn_probs |-> NoTensor, attn |-> NoTensor,
     cache |-> in.state, projected |-> FALSE, merged |-> FALSE, fused |-> FALSE,
     steps |-> <<>>]

Raise(c, error, line) == [c EXCEPT !.status = "error", !.error = error, !.line = line]

\* Sequencing: a statement runs only if no earlier one raised.
Running(c) == c.status = "run"

\* tensor.view(shape) / reshape(shape) succeed only on equal element counts.
CanView(t, shape) == numel(t.shape) = numel(shape)

\* The asserts of lines 286-293.  Line 293 reads "assert bsz, <message>": it
\* tests bsz alone, and the comparison with value.shape is only its message.
fwd_check(c) ==
    IF c.embed_dim # c.self.embed_dim THEN Raise(c, "AssertionError", 288)
    ELSE IF c.in.key.shape[1] # c.bsz THEN Raise(c, "AssertionError", 291)
    ELSE IF c.bsz = 0 THEN Raise(c, "AssertionError", 293)
    ELSE c

\* Lines 295-310: the projections (key and value are projected twice), the
\* query scaling and the pruning; all keep the shape.  The keys and values
\* supplied have the model width, so no projection raises.
fwd_project(c) ==
    [c EXCEPT !.projected = TRUE,
              !.q = [c.in.query EXCEPT !.ops = <<"q_proj", "scaling", "apply_pruning">>],
              !.k = [c.in.key EXCEPT !.ops = <<"k_proj", "apply_pruning">>],
              !.v = [c.in.value EXCEPT !.ops = <<"v_proj", "apply_pruning">>],
              !.steps = @ \o <<"k_proj", "v_proj", "q_proj", "k_proj", "v_proj",
                               "scaling", "apply_pruning">>]

\* t.view(bsz, len, num_heads, head_dim).transpose(1, 2)
HeadView(t, c, len) ==
    [t EXCEPT !.shape = <<c.bsz, c.self.num_heads, len, c.self.head_dim>>,
              !.axes = <<"batch", "heads", "seq", "head_dim">>,
              !.rows = Rechunk(t.rows, c.bsz)]

\* Lines 316-318 (fused path) and 323-325 (reference path): the same views.
fwd_heads(c) ==
    LET fl == c.self.flash_attention
        qs == <<c.bsz, c.tgt_len, c.self.num_heads, c.self.head_dim>>
        ks == <<c.bsz, c.src_len, c.self.num_heads, c.self.head_dim>>
    IN  IF ~CanView(c.q, qs) THEN Raise(c, "RuntimeError", IF fl THEN 316 ELSE 323)
        ELSE IF ~CanView(c.k, ks) THEN Raise(c, "RuntimeError", IF fl THEN 317 ELSE 324)
        ELSE IF ~CanView(c.v, ks) THEN Raise(c, "RuntimeError", IF fl THEN 318 ELSE 325)
        ELSE [c EXCEPT !.q = HeadView(c.q, c, c.tgt_len),
                       !.k = HeadView(c.k, c, c.src_len),
                       !.v = HeadView(c.v, c, c.src_len)]

\* Lines 320-321: torch.stack needs equal shapes; FlashMHA is an external
\* kernel, which raises or returns (in.flash_mha_returns).  Its results are
\* bound to attn_output / attn_output_weights, which nothing reads again, and
\* q, k, v stay 4-axis tensors.
fwd_flash(c) ==
    IF c.q.shape # c.k.shape \/ c.q.shape # c.v.shape THEN Raise(c, "RuntimeError", 320)
    ELSE IF ~c.in.flash_mha_returns THEN Raise(c, "RuntimeError", 321)
    ELSE [c EXCEPT !.fused = TRUE, !.steps = Append(@, "flash_mha")]

\* t.reshape(bsz * num_heads, tgt_len, head_dim): lines 328-330 use tgt_len
\* for the key and the value too.
Merged3(t, c) ==
    [t EXCEPT !.shape = <<c.bsz * c.self.num_heads, c.tgt_len, c.self.head_dim>>,
              !.axes = <<"batch*heads", "seq", "head_dim">>]

fwd_reshape(c) ==
    LET s3 == <<c.bsz * c.self.num_heads, c.tgt_len, c.self.head_dim>>
    IN  IF ~CanView(c.q, s3) THEN Raise(c, "RuntimeError", 328)
        ELSE IF ~CanView(c.k, s3) THEN Raise(c, "RuntimeError", 329)
        ELSE IF ~CanView(c.v, s3) THEN Raise(c, "RuntimeError", 330)
        ELSE [c EXCEPT !.q = Merged3(c.q, c), !.k = Merged3(c.k, c), !.v = Merged3(c.v, c)]

\* Lines 314-330.
fwd_path(c) == IF c.self.flash_attention THEN fwd_flash(c) ELSE fwd_reshape(c)

\* Lines 332-338: attn_weights is read before anything has bound it.
fwd_padding_early(c) ==
    IF c.in.key_padding_mask.present THEN Raise(c, "UnboundLocalError", 333) ELSE c

\* prev.view(bsz * num_heads, -1, head_dim) (lines 344-349).
HeadUnit(c) == c.bsz * c.self.num_heads * c.self.head_dim

CanView3(t, c) == numel(t.shape) % HeadUnit(c) = 0

View3(t, c) ==
    [t EXCEPT !.shape = <<c.bsz * c.self.num_heads, numel(t.shape) \div HeadUnit(c),
                          c.self.head_dim>>,
              !.axes = <<"batch*heads", "seq", "head_dim">>,
              !.rows = Rechunk(t.rows, c.bsz)]

\* t.view(bsz, num_heads, -1, head_dim) (lines 352-357).
View4(t, c) ==
    [t EXCEPT !.shape = <<c.bsz, c.self.num_heads, numel(t.shape) \div HeadUnit(c),
                          c.self.head_dim>>,
              !.axes = <<"batch", "heads", "seq", "head_dim">>,
              !.rows = Rechunk(t.rows, c.bsz)]

\* torch.cat([a, b], dim=1): equal axis counts, equal sizes off axis 1.
CanCat(a, b) ==
    /\ Len(a.shape) = Len(b.shape)
    /\ \A d \in 1..Len(a.shape) : d # 2 => a.shape[d] = b.shape[d]

\* A plausible slip: the new entries put before the stored ones.
cat_new_first(a, b) ==
    [b EXCEPT !.shape[2] = a.shape[2] + b.shape[2],
              !.rows = [r \in 1..Len(b.rows) |-> b.rows[r] \o a.rows[r]]]

cat(a, b) ==
    [b EXCEPT !.shape[2] = a.shape[2] + b.shape[2],
              !.rows = [r \in 1..Len(b.rows) |-> a.rows[r] \o b.rows[r]]]

\* Lines 352-358: the cache is overwritten; src_len = k.size(1).
fwd_store(c) ==
    [c EXCEPT !.cache = [has |-> TRUE, prev_key |-> View4(c.k, c),
                         prev_value |-> View4(c.v, c)],
              !.merged = TRUE,
              !.src_len = c.k.shape[2],
              !.steps = Append(@, "cache")]

\* Lines 342-358.
fwd_cache(c) ==
    IF ~c.in.has_state THEN c
    ELSE IF ~c.cache.has THEN fwd_store(c)
    ELSE IF ~CanView3(c.cache.prev_key, c) THEN Raise(c, "RuntimeError", 344)
    ELSE IF ~CanView3(c.cache.prev_value, c) THEN Raise(c, "RuntimeError", 347)
    ELSE IF ~CanCat(View3(c.cache.prev_key, c), c.k) THEN Raise(c, "RuntimeError", 350)
    ELSE IF ~CanCat(View3(c.cache.prev_value, c), c.v) THEN Raise(c, "RuntimeError", 351)
    ELSE fwd_store([c EXCEPT !.k = cat(View3(c.cache.prev_key, c), c.k),
                             !.v = cat(View3(c.cache.prev_value, c), c.v)])

\* torch.bmm(a, b): two 3-axis tensors, equal batch, inner sizes agreeing.
CanBmm(a, b) ==
    /\ Len(a.shape) = 3 /\ Len(b.shape) = 3
    /\ a.shape[1] = b.shape[1] /\ a.shape[3] = b.shape[2]

Transposed12(t) == [t EXCEPT !.shape = <<t.shape[1], t.shape[3], t.shape[2]>>]

\* Line 368: attn_weights = torch.bmm(q, k.transpose(1, 2)).
fwd_scores(c) ==
    IF Len(c.k.shape) # 3 \/ ~CanBmm(c.q, Transposed12(c.k))
    THEN Raise(c, "RuntimeError", 368)
    ELSE [c EXCEPT
            !.attn_weights =
                [shape |-> <<c.q.shape[1], c.q.shape[2], c.k.shape[2]>>,
                 axes |-> <<"batch*heads", "tgt", "src">>,
                 rows |-> [b \in 1..Len(c.q.rows) |->
                            [i \in 1..Len(c.q.rows[b]) |->
                              [j \in 1..Len(c.k.rows[b]) |->
                                [q |-> c.q.rows[b][i], k |-> c.k.rows[b][j],
                                 neg_inf |-> FALSE, bias |-> FALSE]]]],
                 ops |-> <<"bmm">>],
            !.steps = Append(@, "bmm")]

\* The additive mask's entry for target i and source j: a causal mask holds
\* -infinity above the diagonal (aligned to the last source position).
MaskNegInf(m, i, j) == m.kind = "causal" /\ j > i + (m.shape[Len(m.shape)] - m.shape[Len(m.shape) - 1])

\* Lines 370-372: the scores become a 4-axis tensor and stay one.
\* attn_mask.unsqueeze(1).expand(-1, H, -1, -1) needs a 3-axis mask, and the
\* in-place add one that broadcasts to (bsz, H, tgt_len, src_len).
fwd_attn_mask(c) ==
    LET m  == c.in.attn_mask
        s4 == <<c.bsz, c.self.num_heads, c.tgt_len, c.src_len>>
    IN  IF ~m.present THEN c
        ELSE IF ~CanView(c.attn_weights, s4) THEN Raise(c, "RuntimeError", 371)
        ELSE IF Len(m.shape) # 3 THEN Raise(c, "RuntimeError", 372)
        ELSE IF ~(/\ m.shape[1] \in {1, c.bsz}
                  /\ m.shape[2] \in {1, c.tgt_len}
                  /\ m.shape[3] \in {1, c.src_len})
        THEN Raise(c, "RuntimeError", 372)
        ELSE [c EXCEPT
                !.attn_weights =
                    [shape |-> s4,
                     axes |-> <<"batch", "heads", "tgt", "src">>,
                     rows |-> [b \in 1..Len(c.attn_weights.rows) |->
                                [i \in 1..Len(c.attn_weights.rows[b]) |->
                                  [j \in 1..Len(c.attn_weights.rows[b][i]) |->
                                    [c.attn_weights.rows[b][i][j] EXCEPT
                                        !.neg_inf = @ \/ MaskNegInf(m, i, j)]]]],
                     ops |-> Append(c.attn_weights.ops, "attn_mask")],
                !.steps = Append(@, "attn_mask")]

\* Lines 374-378: masked_fill with key_padding_mask.unsqueeze(1).unsqueeze(2),
\* a (bsz, 1, 1, src_len) mask, which only a 4-axis tensor can take.
fwd_padding(c) ==
    LET m == c.in.key_padding_mask
    IN  IF ~m.present THEN c
        ELSE IF Len(c.attn_weights.shape) # 4 \/ m.shape # <<c.bsz, c.src_len>>
        THEN Raise(c, "RuntimeError", 375)
        ELSE [c EXCEPT
                !.attn_weights.rows =
                    [b \in 1..Len(c.attn_weights.rows) |->
                      [i \in 1..Len(c.attn_weights.rows[b]) |->
                        [j \in 1..Len(c.attn_weights.rows[b][i]) |->
                          [c.attn_weights.rows[b][i][j] EXCEPT
                              !.neg_inf = @ \/ m.rows[b][j]]]]],
                !.attn_weights.ops = Append(@, "key_padding_mask"),
                !.steps = Append(@, "key_padding_mask")]

\* Lines 380-382: softmax along the source axis.  In the content a weight is
\* zero exactly where neg_inf holds; the op list records the normalisation.
fwd_softmax(c) ==
    [c EXCEPT !.attn_weights.ops = Append(@, "softmax"), !.steps = Append(@, "softmax")]

\* Lines 384-386: rel_pos.view(attn_weights.size()) and the addition.
fwd_rel_pos(c) ==
    IF ~c.in.rel_pos.present THEN c
    ELSE IF ~CanView(c.in.rel_pos, c.attn_weights.shape) THEN Raise(c, "RuntimeError", 385)
    ELSE [c EXCEPT
            !.attn_weights.rows =
                [b \in 1..Len(c.attn_weights.rows) |->
                  [i \in 1..Len(c.attn_weights.rows[b]) |->
                    [j \in 1..Len(c.attn_weights.rows[b][i]) |->
                      [c.attn_weights.rows[b][i][j] EXCEPT !.bias = TRUE]]]],
            !.attn_weights.ops = Append(@, "rel_pos"),
            !.steps = Append(@, "rel_pos")]

\* Lines 389-395: float16, dropout (the identity in evaluation mode), float32.
fwd_dropout(c) ==
    LET w16 == [c.attn_weights EXCEPT !.ops = Append(@, "to_float16")]
    IN  [c EXCEPT !.attn_weights = w16,
                  !.attn_probs = [w16 EXCEPT !.ops = @ \o <<"dropout", "to_float32">>],
                  !.steps = @ \o <<"to_float16", "dropout", "to_float32">>]

\* Lines 398-399: attn = torch.bmm(attn_probs, v), then back to
\* (bsz, tgt_len, embed_dim).
fwd_aggregate(c) ==
    IF ~CanBmm(c.attn_probs, c.v) THEN Raise(c, "RuntimeError", 398)
    ELSE IF c.attn_probs.shape[1] * c.attn_probs.shape[2] * c.v.shape[3]
            # c.tgt_len * c.bsz * c.embed_dim
    THEN Raise(c, "RuntimeError", 399)
    ELSE [c EXCEPT
            !.attn =
                [shape |-> <<c.bsz, c.tgt_len, c.embed_dim>>,
                 axes |-> <<"batch", "tgt", "embed">>,
                 rows |-> [b \in 1..Len(c.attn_probs.rows) |->
                            [i \in 1..Len(c.attn_probs.rows[b]) |->
                              [w |-> c.attn_probs.rows[b][i], v |-> c.v.rows[b]]]],
                 ops |-> <<"bmm", "merge_heads">>],
            !.steps = Append(@, "aggregate")]

\* Lines 401-404: the optional normalisation and the output projection.
fwd_output(c) ==
    LET ln == IF c.self.inner_attn_ln THEN <<"inner_attn_ln">> ELSE <<>>
    IN  [c EXCEPT !.attn.ops = @ \o ln \o <<"out_proj">>,
                  !.steps = @ \o ln \o <<"out_proj">>]

\* Lines 406-410: attn_weights.view(bsz, H, tgt_len, src_len).transpose(1, 0).
fwd_return(c) ==
    LET s4 == <<c.bsz, c.self.num_heads, c.tgt_len, c.src_len>>
    IN  IF ~CanView(c.attn_weights, s4) THEN Raise(c, "RuntimeError", 406)
        ELSE [c EXCEPT !.status = "ok",
                       !.attn_weights.shape = <<c.self.num_heads, c.bsz, c.tgt_len, c.src_len>>,
                       !.attn_weights.axes = <<"heads", "batch", "tgt", "src">>]

\* What the caller sees of a finished call.
Outcome(c) ==
    [status |-> c.status, error |-> c.error, line |-> c.line,
     attn |-> IF c.status = "ok" THEN c.attn ELSE NoTensor,
     attn_weights |-> IF c.status = "ok" THEN c.attn_weights ELSE NoTensor,
     incremental_state |-> c.cache,
     projected |-> c.projected, merged |-> c.merged, fused |-> c.fused,
     src_len |-> c.src_len, steps |-> c.steps]

\* forward with the relative bias added to the raw scores, before softmax.
forward_bias_on_raw_scores(self, in) ==
    LET s1  == {fwd_check(StartCall(self, in))}
        s2  == {IF Running(c) THEN fwd_project(c) ELSE c : c \in s1}
        s3  == {IF Running(c) THEN fwd_heads(c) ELSE c : c \in s2}
        s4  == {IF Running(c) THEN fwd_path(c) ELSE c : c \in s3}
        s5  == {IF Running(c) THEN fwd_padding_early(c) ELSE c : c \in s4}
        s6  == {IF Running(c) THEN fwd_cache(c) ELSE c : c \in s5}
        s7  == {IF Running(c) THEN fwd_scores(c) ELSE c : c \in s6}
        s8  == {IF Running(c) THEN fwd_attn_mask(c) ELSE c : c \in s7}
        s9  == {IF Running(c) THEN fwd_padding(c) ELSE c : c \in s8}
        s10 == {IF Running(c) THEN fwd_rel_pos(c) ELSE c : c \in s9}
        s11 == {IF Running(c) THEN fwd_softmax(c) ELSE c : c \in s10}
        s12 == {IF Running(c) THEN fwd_dropout(c) ELSE c : c \in s11}
        s13 == {IF Running(c) THEN fwd_aggregate(c) ELSE c : c \in s12}
        s14 == {IF Running(c) THEN fwd_output(c) ELSE c : c \in s13}
        s15 == {IF Running(c) THEN fwd_return(c) ELSE c : c \in s14}
    IN  CHOOSE o \in {Outcome(c) : c \in s15} : TRUE

\* MultiheadAttention.forward (lines 275-410).  Each statement group acts on
\* the one context its predecessor left (s1, s2, ... are singletons).
forward(self, in) ==
    LET s1  == {fwd_check(StartCall(self, in))}
        s2  == {IF Running(c) THEN fwd_project(c) ELSE c : c \in s1}
        s3  == {IF Running(c) THEN fwd_heads(c) ELSE c : c \in s2}
        s4  == {IF Running(c) THEN fwd_path(c) ELSE c : c \in s3}
        s5  == {IF Running(c) THEN fwd_padding_early(c) ELSE c : c \in s4}
        s6  == {IF Running(c) THEN fwd_cache(c) ELSE c : c \in s5}
        s7  == {IF Running(c) THEN fwd_scores(c) ELSE c : c \in s6}
        s8  == {IF Running(c) THEN fwd_attn_mask(c) ELSE c : c \in s7}
        s9  == {IF Running(c) THEN fwd_padding(c) ELSE c : c \in s8}
        s10 == {IF Running(c) THEN fwd_softmax(c) ELSE c : c \in s9}
        s11 == {IF Running(c) THEN fwd_rel_pos(c) ELSE c : c \in s10}
        s12 == {IF Running(c) THEN fwd_dropout(c) ELSE c : c \in s11}
        s13 == {IF Running(c) THEN fwd_aggregate(c) ELSE c : c \in s12}
        s14 == {IF Running(c) THEN fwd_output(c) ELSE c : c \in s13}
        s15 == {IF Running(c) THEN fwd_return(c) ELSE c : c \in s14}
    IN  CHOOSE o \in {Outcome(c) : c \in s15} : TRUE

(***************************** callers **************************************)
\* Token ids base+1 .. base+n at the n positions of a sequence.
Toks(base, n) == [p \in 1..n |-> base + p]

\* Encoder positions carry the ids -1, -2, ...; decoder positions 1, 2, ...
EncoderToks(n) == [p \in 1..n |-> -p]

\* A (b, n, e) input whose batch elements all carry the tokens toks.
InputTensor(b, n, e, toks) ==
    [shape |-> <<b, n, e>>, axes |-> <<"batch", "seq", "embed">>,
     rows |-> [r \in 1..b |-> toks], ops |-> <<>>]

NoExtras == [kpm |-> FALSE, am |-> "none", rp |-> "none"]

\* The optional arguments a caller combines.
Extras ==
    {NoExtras,
     [kpm |-> TRUE,  am |-> "none", rp |-> "none"],
     [kpm |-> FALSE, am |-> "3d",   rp |-> "none"],
     [kpm |-> FALSE, am |-> "2d",   rp |-> "none"],
     [kpm |-> FALSE, am |-> "none", rp |-> "ok"],
     [kpm |-> FALSE, am |-> "none", rp |-> "bad"],
     [kpm |-> TRUE,  am |-> "3d",   rp |-> "none"],
     [kpm |-> FALSE, am |-> "3d",   rp |-> "ok"]}

\* The shapes of a call: query (bsz, tgt_len, qdim), key (key_bsz, src_len, E),
\* value (val_bsz, val_len, E).
ValidShapes(self, bsz, tgt_len) ==
    {[qdim |-> self.embed_dim, key_bsz |-> bsz, src_len |-> s, val_bsz |-> bsz, val_len |-> s] :
        s \in IF self.self_attention THEN {tgt_len} ELSE 1..MaxLen}

\* Shapes that break the AttentionInput invariant in one place (the value in
\* its batch size, its length, or both).
BrokenShapes(self, bsz, tgt_len) ==
    LET ok == [qdim |-> self.embed_dim, key_bsz |-> bsz, src_len |-> tgt_len,
               val_bsz |-> bsz, val_len |-> tgt_len]
    IN  {[ok EXCEPT !.qdim = d] : d \in QueryDims \ {self.embed_dim}}
        \cup {[ok EXCEPT !.key_bsz = b] : b \in Batches \ {bsz}}
        \cup {[ok EXCEPT !.val_bsz = p[1], !.val_len = p[2]] :
                p \in (Batches \X (1..MaxLen)) \ {<<bsz, tgt_len>>}}

\* The last source position is padding.
PaddingMask(present, bsz, src_len) ==
    [present |-> present, shape |-> <<bsz, src_len>>,
     rows |-> [b \in 1..bsz |-> [j \in 1..src_len |-> j = src_len]]]

AttnMask(am, bsz, tgt_len, src_len) ==
    [present |-> am # "none", kind |-> "causal",
     shape |-> IF am = "2d" THEN <<tgt_len, src_len>> ELSE <<bsz, tgt_len, src_len>>]

RelPos(rp, self, bsz, tgt_len, src_len) ==
    [present |-> rp # "none",
     shape |-> IF rp = "bad" THEN <<bsz * self.num_heads, tgt_len, src_len + 1>>
               ELSE <<bsz * self.num_heads, tgt_len, src_len>>]

\* The arguments of a forward call: sh its shapes, x its optional arguments,
\* state the cache handed in (has_state: whether one is), returns what the
\* external kernel does if it is called; the masks are shaped for the whole
\* source length, the cached positions included.
Arguments(self, bsz, tgt_len, sh, x, has_state, state, returns) ==
    LET base == IF has_state /\ state.has THEN state.prev_key.shape[3] ELSE 0
        total == base + sh.src_len
        ktoks(n) == IF self.self_attention THEN Toks(base, n) ELSE EncoderToks(n)
    IN  [query |-> InputTensor(bsz, tgt_len, sh.qdim, Toks(base, tgt_len)),
         key |-> InputTensor(sh.key_bsz, sh.src_len, self.embed_dim, ktoks(sh.src_len)),
         value |-> InputTensor(sh.val_bsz, sh.val_len, self.embed_dim, ktoks(sh.val_len)),
         has_state |-> has_state,
         state |-> IF has_state THEN state ELSE NoCache,
         key_padding_mask |-> PaddingMask(x.kpm, bsz, total),
         attn_mask |-> AttnMask(x.am, bsz, tgt_len, total),
         rel_pos |-> RelPos(x.rp, self, bsz, tgt_len, total),
         flash_mha_returns |-> returns]

NoArguments ==
    [query |-> NoTensor, key |-> NoTensor, value |-> NoTensor, has_state |-> FALSE,
     state |-> NoCache, key_padding_mask |-> PaddingMask(FALSE, 0, 0),
     attn_mask |-> AttnMask("none", 0, 0, 0), rel_pos |-> RelPos("none", NoEngine, 0, 0, 0),
     flash_mha_returns |-> FALSE]

NoCall == [made |-> FALSE, in |-> NoArguments, shapes_ok |-> FALSE, extras |-> NoExtras]

NoResult ==
    [status |-> "none", error |-> "", line |-> 0, attn |-> NoTensor,
     attn_weights |-> NoTensor, incremental_state |-> NoCache, projected |-> FALSE,
     merged |-> FALSE, fused |-> FALSE, src_len |-> 0, steps |-> <<>>]

NoPrune == [tensor |-> <<>>, top_k |-> <<1, 1>>]

NoPruned == [done |-> FALSE, tensor |-> <<>>]

NoFed == [k |-> <<>>, v |-> <<>>]

ConstructorArguments ==
    [embed_dim : EmbedDims, num_heads : HeadCounts, self_attention : BOOLEAN,
     encoder_decoder_attention : BOOLEAN, subln : BOOLEAN, casual : BOOLEAN,
     flash_attention : BOOLEAN]

(***************************** state machine ********************************)
Init ==
    /\ engine = NoEngine
    /\ incremental_state = NoCache
    /\ call = NoCall
    /\ result = NoResult
    /\ fed = NoFed
    /\ decode = TRUE
    /\ pruneIn = NoPrune
    /\ pruneOut = NoPruned

\* MultiheadAttention(args, embed_dim, num_heads, ...).
Construct ==
    /\ engine.status = "none"
    /\ \E a \in ConstructorArguments : engine' = __init__(a)
    /\ UNCHANGED <<incremental_state, call, result, fed, decode, pruneIn, pruneOut>>

\* The caller starts a new generation session with an empty cache.
NewSession ==
    /\ engine.status = "ok"
    /\ ~call.made
    /\ incremental_state.has
    /\ incremental_state' = NoCache
    /\ call' = NoCall
    /\ result' = NoResult
    /\ fed' = NoFed
    /\ decode' = TRUE
    /\ UNCHANGED <<engine, pruneIn, pruneOut>>

\* The rows a call that reaches the merge adds to the cache, from its arguments.
FreshRows(t, bsz) == Rechunk(t.rows, bsz)

AppendRows(old, new) ==
    IF old = <<>> THEN new ELSE [b \in 1..Len(new) |-> old[b] \o new[b]]

\* One step of incremental decoding: a single-token self-attention call with
\* the session's cache and no optional argument.
IsDecodeStep(self, tgt_len, ok, x) ==
    self.self_attention /\ tgt_len = 1 /\ ok /\ x = NoExtras

\* engine(query, key, value, incremental_state, key_padding_mask, attn_mask, rel_pos)
Forward ==
    /\ engine.status = "ok"
    /\ ~call.made
    /\ \E bsz \in Batches, tgt_len \in 1..MaxLen, ok \in BOOLEAN, has_state \in BOOLEAN,
          returns \in BOOLEAN :
        \E sh \in IF ok THEN ValidShapes(engine, bsz, tgt_len)
                        ELSE BrokenShapes(engine, bsz, tgt_len) :
        \E x \in IF ok THEN Extras ELSE {NoExtras} :
          LET in == Arguments(engine, bsz, tgt_len, sh, x, has_state, incremental_state, returns)
              r  == forward(engine, in)
          IN  /\ returns => engine.flash_attention
              /\ has_state /\ incremental_state.has =>
                    /\ bsz = incremental_state.prev_key.shape[1]
                    /\ incremental_state.prev_key.shape[3] + tgt_len <= MaxCacheLen
              /\ result' = r
              /\ call' = [made |-> TRUE, in |-> in, shapes_ok |-> ok, extras |-> x]
              /\ incremental_state' = IF has_state THEN r.incremental_state
                                                   ELSE incremental_state
              /\ fed' = IF has_state /\ r.merged
                        THEN [k |-> AppendRows(fed.k, FreshRows(in.key, bsz)),
                              v |-> AppendRows(fed.v, FreshRows(in.value, bsz))]
                        ELSE fed
              /\ decode' = IF has_state
                           THEN decode /\ IsDecodeStep(engine, tgt_len, ok, x)
                                       /\ r.status = "ok"
                           ELSE decode
              /\ UNCHANGED <<engine, pruneIn, pruneOut>>

\* The call is synchronous: the caller takes what it returned or raised
\* before it calls again.
Continue ==
    /\ call.made
    /\ call' = NoCall
    /\ result' = NoResult
    /\ UNCHANGED <<engine, incremental_state, fed, decode, pruneIn, pruneOut>>

Next == Construct \/ Forward \/ Continue \/ NewSession

Spec == Init /\ [][Next]_vars

(***************************** apply_pruning alone **************************)
PruneTensors ==
    UNION {[1..r -> [1..n -> PruneVals]] : r \in 1..MaxRows, n \in 1..MaxVec}

InitPrune ==
    /\ engine = NoEngine
    /\ incremental_state = NoCache
    /\ call = NoCall
    /\ result = NoResult
    /\ fed = NoFed
    /\ decode = TRUE
    /\ pruneIn \in [tensor : PruneTensors, top_k : PruneRatios]
    /\ pruneOut = NoPruned

\* engine.apply_pruning(tensor, top_k)
ApplyPruning ==
    /\ ~pruneOut.done
    /\ \E out \in apply_pruning(pruneIn.tensor, pruneIn.top_k) :
          pruneOut' = [done |-> TRUE, tensor |-> out]
    /\ UNCHANGED <<engine, incremental_state, call, result, fed, decode, pruneIn>>

NextPrune == ApplyPruning

SpecPrune == InitPrune /\ [][NextPrune]_vars

(***************************** claims ***************************************)
CacheLen(st) == IF st.has THEN st.prev_key.shape[3] ELSE 0

\* A weight is zero exactly where the score was -infinity.
ZeroWeight(w) == w.neg_inf

\* C1: calls sharing one cache: the first call that merges stores its fresh
\* key / value as they are, every later one stores the cached rows followed
\* by its fresh rows; so the cache holds the calls' keys / values in call
\* order, its length is the sum of the lengths merged (1, then 2, for two
\* single-token calls), it never shrinks, and a call that returns computed
\* its scores over the concatenated length.
C1_CacheConcatenates ==
    /\ incremental_state.has =>
          /\ incremental_state.prev_key.rows = fed.k
          /\ incremental_state.prev_value.rows = fed.v
          /\ \A b \in 1..Len(fed.k) :
                /\ Len(fed.k[b]) = incremental_state.prev_key.shape[3]
                /\ Len(fed.v[b]) = incremental_state.prev_value.shape[3]
    /\ ~incremental_state.has => fed = NoFed
    /\ call.made /\ call.in.has_state =>
          LET pre   == call.in.state
              bsz   == call.in.query.shape[1]
              fresh == FreshRows(call.in.key, bsz)
              freshv == FreshRows(call.in.value, bsz)
          IN  /\ CacheLen(incremental_state) >= CacheLen(pre)
              /\ ~result.merged => incremental_state = pre
              /\ result.merged /\ ~pre.has =>
                    /\ incremental_state.prev_key.rows = fresh
                    /\ incremental_state.prev_value.rows = freshv
                    /\ CacheLen(incremental_state) = call.in.key.shape[2]
              /\ result.merged /\ pre.has =>
                    /\ incremental_state.prev_key.rows =
                          [b \in 1..bsz |-> pre.prev_key.rows[b] \o fresh[b]]
                    /\ incremental_state.prev_value.rows =
                          [b \in 1..bsz |-> pre.prev_value.rows[b] \o freshv[b]]
                    /\ CacheLen(incremental_state) = CacheLen(pre) + call.in.key.shape[2]
              /\ result.status = "ok" =>
                    /\ result.merged
                    /\ result.src_len = CacheLen(incremental_state)
                    /\ result.attn_weights.shape[4] = CacheLen(incremental_state)
                    /\ \A b \in 1..bsz :
                          Len(result.attn_weights.rows[b][1]) = CacheLen(incremental_state)

\* C1 witness: the second of two single-token calls has returned, the cache
\* having grown from 1 to 2.
C1_Witness ==
    /\ call.made /\ call.in.has_state /\ result.status = "ok" /\ decode
    /\ call.in.query.shape[2] = 1
    /\ CacheLen(call.in.state) = 1
    /\ CacheLen(incremental_state) = 2

\* The full-context run of C2: one call without a cache over the first t
\* tokens, causal masking requested by the engine's flag or by an additive mask.
FullContext(mode, bsz, t) ==
    LET self == [engine EXCEPT !.casual = TRUE]
        sh   == [qdim |-> self.embed_dim, key_bsz |-> bsz, src_len |-> t,
                 val_bsz |-> bsz, val_len |-> t]
        x    == IF mode = "mask" THEN [NoExtras EXCEPT !.am = "3d"] ELSE NoExtras
    IN  forward(self, Arguments(self, bsz, t, sh, x, FALSE, NoCache, FALSE))

\* The last row of the full-context run equals the decoding step's only row.
SameAsFullContext(mode) ==
    LET bsz  == call.in.query.shape[1]
        t    == CacheLen(incremental_state)
        full == FullContext(mode, bsz, t)
    IN  /\ result.status = "ok"
        /\ full.status = "ok"
        /\ result.attn.ops = full.attn.ops
        /\ \A b \in 1..bsz :
              /\ result.attn.rows[b][1] = full.attn.rows[b][t]
              /\ Len(result.attn_weights.rows[b][1]) = t
              /\ \A j \in 1..t : ~ZeroWeight(result.attn_weights.rows[b][1][j])

\* C2: incremental decoding equivalence: each of T single-token calls with a
\* growing cache returns what the last row of one causally masked full-context
\* call over the tokens so far returns; both runs complete, and step t attends
\* to exactly the positions 0..t.
C2_IncrementalEqualsFullContext ==
    (call.made /\ call.in.has_state /\ decode /\ ~engine.flash_attention) =>
        \A mode \in {"flag", "mask"} : SameAsFullContext(mode)

\* The part of C2 the code does satisfy: with causality requested by the flag.
C2_FlagRunAgrees ==
    (call.made /\ call.in.has_state /\ decode /\ ~engine.flash_attention) =>
        SameAsFullContext("flag")

\* C3: padding-mask exclusion: a call given a key-padding mask returns weights
\* that are zero at every source position the mask marks.
C3_PaddingExcluded ==
    (call.made /\ call.shapes_ok /\ call.in.key_padding_mask.present) =>
        /\ result.status = "ok"
        /\ \A b \in 1..Len(result.attn_weights.rows) :
            \A i \in 1..Len(result.attn_weights.rows[b]) :
              \A j \in 1..Len(result.attn_weights.rows[b][i]) :
                call.in.key_padding_mask.rows[b][j] =>
                    ZeroWeight(result.attn_weights.rows[b][i][j])

\* C4: an engine built with the causal flag (self-attention, reference path,
\* no cache, no masks) gives target i zero weight on every source j > i.
C4_CausalFlagMasksFuture ==
    (/\ call.made /\ call.shapes_ok /\ call.extras = NoExtras /\ ~call.in.has_state
     /\ engine.casual /\ engine.self_attention /\ ~engine.flash_attention) =>
        /\ result.status = "ok"
        /\ \A b \in 1..Len(result.attn_weights.rows) :
            \A i \in 1..Len(result.attn_weights.rows[b]) :
              \A j \in 1..Len(result.attn_weights.rows[b][i]) :
                j > i => ZeroWeight(result.attn_weights.rows[b][i][j])

\* C5: every valid call (self- or cross-attention, key length equal to the
\* target length or not, with or without an additive mask) completes and
\* returns an output of shape (batch, target-len, embedding-dim) and 4-axis
\* weights over (target-len, source-len), source-len being the key length
\* (the concatenated length with a cache).  The order the claim gives the two
\* leading axes, (batch, heads), is stated apart, in C5_LeadingAxes.
C5_OutputShapes ==
    (/\ call.made /\ call.shapes_ok /\ ~engine.flash_attention
     /\ ~call.in.key_padding_mask.present /\ ~call.in.rel_pos.present) =>
        LET bsz == call.in.query.shape[1]
            tgt == call.in.query.shape[2]
            src == CacheLen(call.in.state) + call.in.key.shape[2]
        IN  /\ result.status = "ok"
            /\ result.attn.shape = <<bsz, tgt, engine.embed_dim>>
            /\ Len(result.attn_weights.shape) = 4
            /\ result.attn_weights.shape[3] = tgt
            /\ result.attn_weights.shape[4] = src

\* The leading axes of the weights a call returns are (batch, heads).
C5_LeadingAxes ==
    (call.made /\ result.status = "ok") =>
        /\ result.attn_weights.axes = <<"batch", "heads", "tgt", "src">>
        /\ result.attn_weights.shape[1] = call.in.query.shape[1]
        /\ result.attn_weights.shape[2] = engine.num_heads

\* C6: with no additive mask, no relative bias and dropout off, a call on an
\* engine with the fused kernel returns the kernel's result, reassembled, and
\* it equals what the reference path returns for the same input.
C6_FusedEqualsReference ==
    (/\ call.made /\ call.shapes_ok /\ call.extras = NoExtras /\ ~call.in.has_state
     /\ engine.flash_attention /\ engine.self_attention /\ call.in.flash_mha_returns) =>
        /\ result.status = "ok"
        /\ result.fused
        /\ result.attn = forward([engine EXCEPT !.flash_attention = FALSE], call.in).attn

\* C7: a call on an engine with the fused kernel that supplies an additive
\* mask or a relative bias ends in an explicit unsupported-configuration error.
C7_FusedRejectsMaskAndBias ==
    (/\ call.made /\ call.shapes_ok /\ engine.flash_attention
     /\ (call.in.attn_mask.present \/ call.in.rel_pos.present)) =>
        /\ result.status = "error"
        /\ result.error = "UnsupportedConfigurationError"

\* C8: construction with both flags false or both true fails on the flag
\* check before any projection, normalisation or other object is created;
\* construction with exactly one flag set passes the check.
C8_FlagCheckFirst ==
    engine.status # "none" =>
        /\ engine.self_attention = engine.encoder_decoder_attention =>
              /\ engine.status = "error"
              /\ engine.error = "AssertionError"
              /\ engine.created = <<>>
        /\ engine.self_attention # engine.encoder_decoder_attention =>
              ~(engine.status = "error" /\ engine.line = 243)

\* C8 witness: a construction with both flags set has failed.
C8_Witness ==
    engine.status = "error" /\ engine.self_attention /\ engine.encoder_decoder_attention

\* C9: a call whose query width, key batch size, value batch size or value
\* length breaks the AttentionInput invariant is rejected by a precondition
\* check before any projection is computed.
C9_BrokenInputRejected ==
    (call.made /\ ~call.shapes_ok) =>
        /\ result.status = "error"
        /\ result.error = "AssertionError"
        /\ ~result.projected

Abs(x) == IF x < 0 THEN -x ELSE x

\* The number of entries the claim says are kept: max(ceil(ratio * n), 1).
ClaimedCount(n, top_k) == Max((n * top_k[1] + top_k[2] - 1) \div top_k[2], 1)

\* out keeps exactly the entries of vec at the index set S and zeroes the rest.
KeepsExactly(vec, out, S) ==
    \A i \in 1..Len(vec) : out[i] = IF i \in S THEN vec[i] ELSE 0

\* C10: apply_pruning returns a tensor of the same shape in which each vector
\* keeps exactly max(ceil(ratio * n), 1) entries, those of largest magnitude,
\* and is zero elsewhere; with ratio 1 the result is the input.
C10_PruneKeepsLargestMagnitude ==
    pruneOut.done =>
        LET in  == pruneIn.tensor
            out == pruneOut.tensor
            n   == Len(in[1])
        IN  /\ Len(out) = Len(in)
            /\ \A r \in 1..Len(in) :
                  /\ Len(out[r]) = n
                  /\ \E S \in SUBSET (1..n) :
                        /\ Cardinality(S) = ClaimedCount(n, pruneIn.top_k)
                        /\ KeepsExactly(in[r], out[r], S)
                        /\ \A i \in S : \A j \in (1..n) \ S : Abs(in[r][i]) >= Abs(in[r][j])
            /\ pruneIn.top_k = <<1, 1>> => out = in

\* The score steps of the reference path, in the order of lines 368-398.
ScoreOrder ==
    <<"bmm", "attn_mask", "key_padding_mask", "softmax", "rel_pos", "dropout", "aggregate">>

ScoreRank(name) == CHOOSE n \in 1..Len(ScoreOrder) : ScoreOrder[n] = name

IsScoreStep(name) == \E n \in 1..Len(ScoreOrder) : ScoreOrder[n] = name

\* Position of a step in a list of steps that holds it.
StepAt(steps, name) == CHOOSE n \in 1..Len(steps) : steps[n] = name

Ran(steps, name) == \E n \in 1..Len(steps) : steps[n] = name

\* C11: in every call on the reference path the score steps that run, run in
\* the order raw scores (from the query scaled before), additive mask,
\* padding mask, softmax, relative bias, dropout, aggregation with value,
\* each at most once, and a call that returns has run the raw scores,
\* softmax, dropout and the aggregation, and every optional step whose
\* argument was supplied.  A supplied relative bias is added next after
\* softmax and before dropout, and the weights returned carry the bias and
\* not the dropout.
C11_ScoreStepOrder ==
    (call.made /\ ~engine.flash_attention) =>
        LET steps == result.steps
            w == result.attn_weights
        IN  /\ \A m, n \in 1..Len(steps) :
                  (m < n /\ IsScoreStep(steps[m]) /\ IsScoreStep(steps[n])) =>
                      ScoreRank(steps[m]) < ScoreRank(steps[n])
            /\ Ran(steps, "bmm") =>
                  Ran(steps, "scaling") /\ StepAt(steps, "scaling") < StepAt(steps, "bmm")
            /\ Ran(steps, "rel_pos") =>
                  /\ call.in.rel_pos.present
                  /\ steps[StepAt(steps, "rel_pos") - 1] = "softmax"
            /\ result.status = "ok" =>
                  /\ \A name \in {"bmm", "softmax", "dropout", "aggregate"} : Ran(steps, name)
                  /\ call.in.attn_mask.present <=> Ran(steps, "attn_mask")
                  /\ call.in.key_padding_mask.present <=> Ran(steps, "key_padding_mask")
                  /\ call.in.rel_pos.present <=> Ran(steps, "rel_pos")
                  /\ ~Ran(w.ops, "dropout")
                  /\ Ran(w.ops, "softmax")
                  /\ call.in.rel_pos.present =>
                        /\ Ran(w.ops, "rel_pos")
                        /\ StepAt(w.ops, "softmax") < StepAt(w.ops, "rel_pos")
                        /\ \A b \in 1..Len(w.rows) : \A i \in 1..Len(w.rows[b]) :
                              \A j \in 1..Len(w.rows[b][i]) : w.rows[b][i][j].bias

\* C11 witness: a reference-path call given a relative bias has returned.
C11_Witness ==
    /\ call.made /\ ~engine.flash_attention /\ call.in.rel_pos.present
    /\ result.status = "ok"
    /\ Ran(result.steps, "rel_pos") /\ Ran(result.steps, "aggregate")

\* C12: a forward call that was given an incremental cache and ended in an
\* error has left the cache as it was before the call: prev_key and
\* prev_value (or their absence) are unchanged; only calls that return
\* change the cache.
C12_ErrorLeavesCacheUnchanged ==
    (call.made /\ call.in.has_state /\ result.status = "error") =>
        incremental_state = call.in.state

====
